---- MODULE Spec2Model ----
(***************************************************************************)
(* GitHub PR readiness checker: the fetch-github-pr tool handler of the    *)
(* MCP server, in its two variants (my-mcp-server/index.ts and the later   *)
(* variant with the richer output), and the pr-readiness widget that       *)
(* derives the next actions from the handler's output.                     *)
(*                                                                         *)
(* The handler is an async function: it is modelled as one action per      *)
(* awaited fetch, each action running the synchronous code up to the next  *)
(* await.  The code after the last await (signal extraction, the four      *)
(* status rules, the return) runs to completion in one action; the value   *)
(* the status variable holds after each rule is kept in statusLog.         *)
(***************************************************************************)
EXTENDS Integers, Sequences, FiniteSets, TLC

VARIABLES
    variant,     \* which server is deployed: 1 = my-mcp-server/index.ts, 2 = later variant
    pc,          \* position of the handler: idle, awaitPR, ..., done
    prData,      \* body of the PR metadata response
    reviews,     \* review list (after the !ok fallback)
    checksData,  \* check-run response body (after the !ok fallback)
    comments,    \* issue comments (after the !ok fallback)
    filesData,   \* changed files (variant 2 only)
    statusLog,   \* values of `status`: initial value, then after each rule
    result,      \* what the handler returned
    resolved,    \* the fetches of this call whose await has resumed
    mounted,     \* the widget has been rendered with the returned output
    expandedSections,  \* the widget's useState value
    toggles      \* how often each section's button has been clicked

handlerVars ==
    <<variant, pc, prData, reviews, checksData, comments, filesData, statusLog, result,
      resolved>>
widgetVars == <<mounted, expandedSections, toggles>>
vars == <<handlerVars, widgetVars>>

----------------------------------------------------------------------------
(* Bounds of the explored inputs *)

MaxReviewers == 2
MaxReviews == 2
MaxChecks == 2
MaxComments == 1
MaxFiles == 6
MaxToggles == 2

----------------------------------------------------------------------------
(* JavaScript values *)

\* an optional array: `undefined` or an array
None == [defined |-> FALSE, value |-> <<>>]
Some(v) == [defined |-> TRUE, value |-> v]

\* x?.length || d : undefined and 0 are both falsy
LengthOr(opt, d) ==
    IF opt.defined /\ Len(opt.value) # 0 THEN Len(opt.value) ELSE d

\* x.length > 0 ? x : undefined
NonEmptyOrUndefined(s) == IF Len(s) > 0 THEN Some(s) ELSE None

\* destructuring default of the widget: `x = []`
OrEmpty(opt) == IF opt.defined THEN opt.value ELSE <<>>

Max(a, b) == IF a >= b THEN a ELSE b

\* arr.slice(0, n)
Slice0(s, n) == SubSeq(s, 1, IF Len(s) < n THEN Len(s) ELSE n)

----------------------------------------------------------------------------
(* What the GitHub API can answer *)

SeqsUpTo(S, n) == UNION {[1..k -> S] : k \in 0..n}

Mergeables == {"true", "false", "null"}

\* requested_reviewers: absent, or the logins 1..n
ReviewerFields == {None} \cup {Some([i \in 1..n |-> i]) : n \in 0..MaxReviewers}

\* a found pull request
PRBodies ==
    [hasHead : {TRUE}, mergeable : Mergeables, draft : BOOLEAN,
     requested_reviewers : ReviewerFields]

\* the body of a 404 ({message: "Not Found"}): every PR field is undefined
NotFoundBody ==
    [hasHead |-> FALSE, mergeable |-> "undefined", draft |-> FALSE,
     requested_reviewers |-> None]

ReviewStates == {"APPROVED", "CHANGES_REQUESTED"}
ReviewLists == SeqsUpTo([state : ReviewStates], MaxReviews)

\* a check run: completed with a conclusion, or still running (conclusion null)
RawRuns ==
    [name : {"ci"}, status : {"completed"},
     conclusion : {"success", "failure", "cancelled", "neutral"}]
    \cup [name : {"ci"}, status : {"in_progress"}, conclusion : {"null"}]
CheckRunLists == SeqsUpTo(RawRuns, MaxChecks)

CommentLists == {[i \in 1..n |-> i] : n \in 0..MaxComments}

\* the changed files: none, or MaxFiles of them
FileLists == {<<>>, [i \in 1..MaxFiles |-> [filename |-> i]]}

----------------------------------------------------------------------------
(* Signal extraction *)

\* reviews.filter((r) => r.state === "APPROVED").length
Approvals(rs) == Len(SelectSeq(rs, LAMBDA r : r.state = "APPROVED"))

\* mutation: the floor of 1 is dropped
RequiredApprovals_NoFloor(pr) == LengthOr(pr.requested_reviewers, 0)

\* variant 2: Math.max(1, prData.requested_reviewers?.length || 1)
RequiredApprovals(pr) == Max(1, LengthOr(pr.requested_reviewers, 1))

\* variant 2: prData.requested_reviewers?.map((r) => r.login) || []
RequestedReviewersList(pr) == OrEmpty(pr.requested_reviewers)

\* variant 1: prData.requested_reviewers?.length || 0
RequestedReviewers(pr) == LengthOr(pr.requested_reviewers, 0)

\* checksData.check_runs || []
CheckRuns(cd) == OrEmpty(cd.check_runs)

\* variant 2: the conclusion of a run mapped to one of four states
NormalizedState(c) ==
    IF c.conclusion = "success" THEN "success"
    ELSE IF c.conclusion = "failure" THEN "failure"
    ELSE IF c.conclusion = "cancelled" THEN "error"
    ELSE "pending"

\* mutation: checks of an unfinished run are left out of the list
Checks_CompletedOnly(runs) ==
    LET done == SelectSeq(runs, LAMBDA c : c.status = "completed") IN
    [i \in DOMAIN done |-> [name |-> done[i].name, state |-> NormalizedState(done[i])]]

\* variant 2: checkRuns.map(...)
Checks(runs) ==
    [i \in DOMAIN runs |-> [name |-> runs[i].name, state |-> NormalizedState(runs[i])]]

IsFailing(c) == c.state = "failure" \/ c.state = "error"

\* variant 2 and widget: checks.filter(c => c.state === "failure" || c.state === "error")
FailingChecks(cs) == SelectSeq(cs, IsFailing)

\* variant 1: runs completed with conclusion success
PassingChecks1(runs) ==
    Len(SelectSeq(runs, LAMBDA c : c.status = "completed" /\ c.conclusion = "success"))

\* variant 1: runs completed
TotalChecks1(runs) == Len(SelectSeq(runs, LAMBDA c : c.status = "completed"))

\* mutation: !prData.mergeable, which takes null for a conflict
HasConflicts_NotTrue(pr) == pr.mergeable # "true"

\* prData.mergeable === false
HasConflicts(pr) == pr.mergeable = "false"

TopFilesCap == 5

\* filesData.slice(0, 5).map((f) => f.filename)
TopFiles(fs) == LET top == Slice0(fs, TopFilesCap) IN [i \in DOMAIN top |-> top[i].filename]

----------------------------------------------------------------------------
(* Status calculation: a status, the issues pushed so far, and the log of *)
(* the values the status took.                                             *)

ConflictIssue == "Resolve the existing merge conflicts before merging"
DraftIssue == "PR is still in draft"
ApprovalsIssue(n) == "Needs " \o ToString(n) \o " more approval(s)"
ChecksIssue(n) == ToString(n) \o " check(s) failing"

\* let status = "ready"; const issues = []
StartStatus == [status |-> "ready", issues |-> <<>>, log |-> <<"ready">>]

\* mutation: the rule assigns the status and pushes no issue
Fire_NoPush(st, s, msg) ==
    [status |-> s, issues |-> st.issues, log |-> Append(st.log, s)]

\* a rule whose condition holds: status = s; issues.push(msg)
Fire(st, s, msg) ==
    [status |-> s, issues |-> Append(st.issues, msg), log |-> Append(st.log, s)]

\* a rule whose condition does not hold
Skip(st) == [st EXCEPT !.log = Append(@, st.status)]

\* mutation: the rule assigns "pending" whatever the status is
Downgrade_AlwaysPending(s) == "pending"

\* mutation: only not-ready is kept, a pending status stays pending
Downgrade_KeepPending(s) == IF s = "not-ready" THEN "not-ready" ELSE "pending"

\* status === "ready" ? "pending" : "not-ready"
Downgrade(s) == IF s = "ready" THEN "pending" ELSE "not-ready"

\* if (hasConflicts) {...}
ConflictsRule(st, hasConflicts) ==
    IF hasConflicts THEN Fire(st, "not-ready", ConflictIssue) ELSE Skip(st)

\* mutation: the approvals rule assigns "pending" unconditionally
ApprovalsRule_SetsPending(st, approvals, requiredApprovals) ==
    IF approvals < requiredApprovals
    THEN Fire(st, "pending", ApprovalsIssue(requiredApprovals - approvals))
    ELSE Skip(st)

\* variant 2: if (approvals < requiredApprovals) {...}
ApprovalsRule(st, approvals, requiredApprovals) ==
    IF approvals < requiredApprovals
    THEN Fire(st, Downgrade(st.status), ApprovalsIssue(requiredApprovals - approvals))
    ELSE Skip(st)

\* mutation: index.ts compares with the reviewer count without the floor of 1
ApprovalsRule1_NoFloor(st, approvals, requestedReviewers) ==
    IF approvals < requestedReviewers
    THEN Fire(st, Downgrade(st.status), ApprovalsIssue(requestedReviewers - approvals))
    ELSE Skip(st)

\* variant 1: if (approvals < Math.max(1, requestedReviewers)) {...}
ApprovalsRule1(st, approvals, requestedReviewers) ==
    IF approvals < Max(1, requestedReviewers)
    THEN Fire(st, Downgrade(st.status),
              ApprovalsIssue(Max(1, requestedReviewers) - approvals))
    ELSE Skip(st)

\* mutation: every check that is not a success counts as failing
ChecksRule_NotSuccess(st, checks) ==
    LET bad == SelectSeq(checks, LAMBDA c : c.state # "success") IN
    IF Len(bad) > 0
    THEN Fire(st, Downgrade(st.status), ChecksIssue(Len(bad)))
    ELSE Skip(st)

\* variant 2: if (failingChecks.length > 0) {...}
ChecksRule(st, checks) ==
    IF Len(FailingChecks(checks)) > 0
    THEN Fire(st, Downgrade(st.status), ChecksIssue(Len(FailingChecks(checks))))
    ELSE Skip(st)

\* variant 1: if (totalChecks > 0 && passingChecks < totalChecks) {...}
ChecksRule1(st, passingChecks, totalChecks) ==
    IF totalChecks > 0 /\ passingChecks < totalChecks
    THEN Fire(st, Downgrade(st.status), ChecksIssue(totalChecks - passingChecks))
    ELSE Skip(st)

\* mutation: the draft rule downgrades by one step instead of blocking
DraftRule_Downgrade(st, pr) ==
    IF pr.draft THEN Fire(st, Downgrade(st.status), DraftIssue) ELSE Skip(st)

\* if (prData.draft) {...}
DraftRule(st, pr) ==
    IF pr.draft THEN Fire(st, "not-ready", DraftIssue) ELSE Skip(st)

\* mutation: the draft rule evaluated right after the conflicts rule
Classify_DraftSecond(pr, rs, cd) ==
    ChecksRule(
        ApprovalsRule(
            DraftRule(ConflictsRule(StartStatus, HasConflicts(pr)), pr),
            Approvals(rs), RequiredApprovals(pr)),
        Checks(CheckRuns(cd)))

\* variant 2: the rules in the order of the code
Classify(pr, rs, cd) ==
    DraftRule(
        ChecksRule(
            ApprovalsRule(
                ConflictsRule(StartStatus, HasConflicts(pr)),
                Approvals(rs), RequiredApprovals(pr)),
            Checks(CheckRuns(cd))),
        pr)

\* variant 1: the rules in the order of the code
Classify1(pr, rs, cd) ==
    DraftRule(
        ChecksRule1(
            ApprovalsRule1(
                ConflictsRule(StartStatus, HasConflicts(pr)),
                Approvals(rs), RequestedReviewers(pr)),
            PassingChecks1(CheckRuns(cd)), TotalChecks1(CheckRuns(cd))),
        pr)

\* mutation: the issues field guarded by the length of topFiles
Output_IssuesByTopFiles(pr, rs, cd, fs) ==
    LET st == Classify(pr, rs, cd) IN
    [status |-> st.status,
     approvals |-> Approvals(rs),
     requiredApprovals |-> RequiredApprovals(pr),
     requestedReviewers |-> RequestedReviewersList(pr),
     checks |-> NonEmptyOrUndefined(Checks(CheckRuns(cd))),
     topFiles |-> NonEmptyOrUndefined(TopFiles(fs)),
     draft |-> pr.draft,
     mergeable |-> pr.mergeable,
     issues |-> IF Len(TopFiles(fs)) > 0 THEN Some(st.issues) ELSE None]

\* variant 2: the object that is serialised into the result
Output(pr, rs, cd, fs) ==
    LET st == Classify(pr, rs, cd) IN
    [status |-> st.status,
     approvals |-> Approvals(rs),
     requiredApprovals |-> RequiredApprovals(pr),
     requestedReviewers |-> RequestedReviewersList(pr),
     checks |-> NonEmptyOrUndefined(Checks(CheckRuns(cd))),
     topFiles |-> NonEmptyOrUndefined(TopFiles(fs)),
     draft |-> pr.draft,
     mergeable |-> pr.mergeable,
     issues |-> NonEmptyOrUndefined(st.issues)]

\* variant 1: the object that is serialised into the result
Output1(pr, rs, cd, cm) ==
    LET st == Classify1(pr, rs, cd) IN
    [status |-> st.status,
     approvals |-> Approvals(rs),
     requestedReviewers |-> RequestedReviewers(pr),
     commentsCount |-> Len(cm),
     checkStatus |-> [passing |-> PassingChecks1(CheckRuns(cd)),
                      total |-> TotalChecks1(CheckRuns(cd))],
     draft |-> pr.draft,
     hasConflicts |-> HasConflicts(pr),
     issues |-> st.issues]

----------------------------------------------------------------------------
(* The widget (second pr-readiness component), fed the variant 2 output *)

\* mutation: the draft flag is not read from the props, its default is used
WidgetProps_DraftDefault(out) ==
    [status |-> out.status,
     approvals |-> out.approvals,
     requiredApprovals |-> out.requiredApprovals,
     requestedReviewers |-> out.requestedReviewers,
     checks |-> OrEmpty(out.checks),
     topFiles |-> OrEmpty(out.topFiles),
     draft |-> FALSE,
     mergeable |-> out.mergeable,
     issues |-> OrEmpty(out.issues)]

\* the props after destructuring, with the defaults filled in
WidgetProps(out) ==
    [status |-> out.status,
     approvals |-> out.approvals,
     requiredApprovals |-> out.requiredApprovals,
     requestedReviewers |-> out.requestedReviewers,
     checks |-> OrEmpty(out.checks),
     topFiles |-> OrEmpty(out.topFiles),
     draft |-> out.draft,
     mergeable |-> out.mergeable,
     issues |-> OrEmpty(out.issues)]

PendingChecks(cs) == SelectSeq(cs, LAMBDA c : c.state = "pending")
PassingChecks(cs) == SelectSeq(cs, LAMBDA c : c.state = "success")

\* `${n} ... ${word}${n > 1 ? "s" : ""}`
Plural(n) == IF n > 1 THEN "s" ELSE ""

ConflictAction == "Resolve the existing merge conflicts before merging"
DraftAction == "Mark the PR as ready for review"
FixChecksAction(n) == "Fix " \o ToString(n) \o " failing check" \o Plural(n)
ApprovalsAction(n) == "Request " \o ToString(n) \o " more approval" \o Plural(n)
WaitChecksAction(n) == "Wait for " \o ToString(n) \o " pending check" \o Plural(n)

MaxActions == 3

\* actions.push(x) when cond holds
PushIf(actions, cond, x) == IF cond THEN Append(actions, x) ELSE actions

\* mutation: the approvals action pushed before the failing-checks action
AllActions_ApprovalsFirst(props) ==
    LET failing == Len(FailingChecks(props.checks))
        pending == Len(PendingChecks(props.checks))
        missing == props.requiredApprovals - props.approvals
        a1 == PushIf(<<>>, props.mergeable = "false", ConflictAction)
        a2 == PushIf(a1, props.draft, DraftAction)
        a3 == PushIf(a2, props.approvals < props.requiredApprovals, ApprovalsAction(missing))
        a4 == PushIf(a3, failing > 0, FixChecksAction(failing))
    IN  PushIf(a4, pending > 0, WaitChecksAction(pending))

\* the list before the slice
AllActions(props) ==
    LET failing == Len(FailingChecks(props.checks))
        pending == Len(PendingChecks(props.checks))
        missing == props.requiredApprovals - props.approvals
        a1 == PushIf(<<>>, props.mergeable = "false", ConflictAction)
        a2 == PushIf(a1, props.draft, DraftAction)
        a3 == PushIf(a2, failing > 0, FixChecksAction(failing))
        a4 == PushIf(a3, props.approvals < props.requiredApprovals, ApprovalsAction(missing))
    IN  PushIf(a4, pending > 0, WaitChecksAction(pending))

\* mutation: the list is returned without the slice
getNextActions_NoSlice(props) == AllActions(props)

getNextActions(props) == Slice0(AllActions(props), MaxActions)

\* mutation: the division is not guarded
Percentage_Unguarded(value, max) == [num |-> value * 100, den |-> max]

\* ProgressBar: max > 0 ? (value / max) * 100 : 0, as an exact fraction
Percentage(value, max) ==
    IF max > 0 THEN [num |-> value * 100, den |-> max] ELSE [num |-> 0, den |-> 1]

\* <ProgressBar value={passingChecks.length} max={checks.length} />
ChecksProgress(props) == Percentage(Len(PassingChecks(props.checks)), Len(props.checks))

\* <ProgressBar value={approvals} max={requiredApprovals} />
ApprovalsProgress(props) == Percentage(props.approvals, props.requiredApprovals)

Sections == {"checks", "files", "reviews"}

\* useState({checks: false, files: false, reviews: false})
Collapsed == [s \in Sections |-> FALSE]

NoToggles == [s \in Sections |-> 0]

----------------------------------------------------------------------------
(* The handler *)

NoResult == [kind |-> "none", isError |-> FALSE]
ErrorResult(message) ==
    [kind |-> "error", isError |-> TRUE,
     text |-> "Error fetching PR data: " \o message]
Verdict(out) == [kind |-> "verdict", isError |-> FALSE, body |-> out]

AwaitStates == {"awaitPR", "awaitReviews", "awaitChecks", "awaitComments", "awaitFiles"}

\* a response that is ok with one of `bodies`, or not ok
Responses(bodies) ==
    {[ok |-> TRUE, body |-> b] : b \in bodies} \cup {[ok |-> FALSE, body |-> <<>>]}

ChecksBodies == {[check_runs |-> None]} \cup {[check_runs |-> Some(r)] : r \in CheckRunLists}

Init ==
    /\ variant \in {1, 2}
    /\ pc = "idle"
    /\ prData = NotFoundBody
    /\ reviews = <<>>
    /\ checksData = [check_runs |-> None]
    /\ comments = <<>>
    /\ filesData = <<>>
    /\ statusLog = <<>>
    /\ result = NoResult
    /\ resolved = {}
    /\ mounted = FALSE
    /\ expandedSections = Collapsed
    /\ toggles = NoToggles

\* the tool is called: the PR metadata is requested
Invoke ==
    /\ pc \in {"idle", "done"}
    /\ pc' = "awaitPR"
    /\ prData' = NotFoundBody
    /\ reviews' = <<>>
    /\ checksData' = [check_runs |-> None]
    /\ comments' = <<>>
    /\ filesData' = <<>>
    /\ statusLog' = <<>>
    /\ result' = NoResult
    /\ resolved' = {}
    /\ UNCHANGED <<variant, widgetVars>>

\* a fetch (or the parse of its body) rejects: the catch block returns the error
FetchRejected ==
    /\ pc \in AwaitStates
    /\ pc' = "done"
    /\ result' = ErrorResult("fetch failed")
    /\ UNCHANGED <<variant, prData, reviews, checksData, comments, filesData, statusLog,
                   resolved, widgetVars>>

\* the PR metadata arrives (its ok flag is not looked at); the reviews are requested
PRResolved ==
    /\ pc = "awaitPR"
    /\ \E body \in PRBodies \cup {NotFoundBody} : prData' = body
    /\ pc' = "awaitReviews"
    /\ resolved' = resolved \cup {"pr"}
    /\ UNCHANGED <<variant, reviews, checksData, comments, filesData, statusLog, result,
                   widgetVars>>

\* mutation: prData.head?.sha, so a missing head does not throw
ReviewsResolved_OptionalChaining ==
    /\ pc = "awaitReviews"
    /\ \E resp \in Responses(ReviewLists) :
           reviews' = IF resp.ok THEN resp.body ELSE <<>>
    /\ pc' = "awaitChecks"
    /\ resolved' = resolved \cup {"reviews"}
    /\ UNCHANGED <<variant, prData, checksData, comments, filesData, statusLog, result,
                   widgetVars>>

\* the reviews arrive; building the check-runs URL reads prData.head.sha
ReviewsResolved ==
    /\ pc = "awaitReviews"
    /\ \E resp \in Responses(ReviewLists) :
           reviews' = IF resp.ok THEN resp.body ELSE <<>>
    /\ IF prData.hasHead
       THEN pc' = "awaitChecks" /\ UNCHANGED result
       ELSE /\ pc' = "done"
            /\ result' = ErrorResult("Cannot read properties of undefined (reading 'sha')")
    /\ resolved' = resolved \cup {"reviews"}
    /\ UNCHANGED <<variant, prData, checksData, comments, filesData, statusLog, widgetVars>>

\* the check runs arrive; the comments are requested
ChecksResolved ==
    /\ pc = "awaitChecks"
    /\ \E resp \in Responses(ChecksBodies) :
           checksData' = IF resp.ok THEN resp.body ELSE [check_runs |-> Some(<<>>)]
    /\ pc' = "awaitComments"
    /\ resolved' = resolved \cup {"checks"}
    /\ UNCHANGED <<variant, prData, reviews, comments, filesData, statusLog, result,
                   widgetVars>>

\* variant 1: the comments arrive; the status is calculated and returned
CommentsResolved1 ==
    /\ variant = 1
    /\ pc = "awaitComments"
    /\ \E resp \in Responses(CommentLists) :
           comments' = IF resp.ok THEN resp.body ELSE <<>>
    /\ statusLog' = Classify1(prData, reviews, checksData).log
    /\ result' = Verdict(Output1(prData, reviews, checksData, comments'))
    /\ pc' = "done"
    /\ resolved' = resolved \cup {"comments"}
    /\ UNCHANGED <<variant, prData, reviews, checksData, filesData, widgetVars>>

\* mutation: the files fetch is not awaited, the status is calculated at once
CommentsResolved_FilesNotAwaited ==
    /\ variant = 2
    /\ pc = "awaitComments"
    /\ \E resp \in Responses(CommentLists) :
           comments' = IF resp.ok THEN resp.body ELSE <<>>
    /\ statusLog' = Classify(prData, reviews, checksData).log
    /\ result' = Verdict(Output(prData, reviews, checksData, filesData))
    /\ pc' = "awaitFiles"
    /\ resolved' = resolved \cup {"comments"}
    /\ UNCHANGED <<variant, prData, reviews, checksData, filesData, widgetVars>>

\* variant 2: the comments arrive; the files are requested
CommentsResolved ==
    /\ variant = 2
    /\ pc = "awaitComments"
    /\ \E resp \in Responses(CommentLists) :
           comments' = IF resp.ok THEN resp.body ELSE <<>>
    /\ pc' = "awaitFiles"
    /\ resolved' = resolved \cup {"comments"}
    /\ UNCHANGED <<variant, prData, reviews, checksData, filesData, statusLog, result,
                   widgetVars>>

\* variant 2: the files arrive; the status is calculated and returned
FilesResolved ==
    /\ variant = 2
    /\ pc = "awaitFiles"
    /\ \E resp \in Responses(FileLists) :
           filesData' = IF resp.ok THEN resp.body ELSE <<>>
    /\ statusLog' = Classify(prData, reviews, checksData).log
    /\ result' = Verdict(Output(prData, reviews, checksData, filesData'))
    /\ pc' = "done"
    /\ resolved' = resolved \cup {"files"}
    /\ UNCHANGED <<variant, prData, reviews, checksData, comments, widgetVars>>

Next ==
    \/ Invoke
    \/ FetchRejected
    \/ PRResolved
    \/ ReviewsResolved
    \/ ChecksResolved
    \/ CommentsResolved1
    \/ CommentsResolved
    \/ FilesResolved

Spec == Init /\ [][Next]_vars

----------------------------------------------------------------------------
(* The widget's collapsible sections.  The widget is rendered with the     *)
(* output of a call that returned a verdict; reviews and comments do not   *)
(* reach the sections, so the widget is started from the calls without     *)
(* them.                                                                    *)

\* mutation: the previous state is not spread into the new one
ToggleSection_NoSpread(prev, section) ==
    [s \in Sections |-> IF s = section THEN ~prev[s] ELSE FALSE]

\* setExpandedSections((prev) => ({...prev, [section]: !prev[section]}))
ToggleSection(prev, section) == [prev EXCEPT ![section] = ~@]

\* the condition under which a section (with its button) is in the tree
SectionShown(props, s) ==
    CASE s = "checks" ->
           Len(FailingChecks(props.checks)) > 0 \/ Len(PendingChecks(props.checks)) > 0
      [] s = "files" -> Len(props.topFiles) > 0
      [] s = "reviews" -> Len(props.requestedReviewers) > 0

\* the detail list of a section is in the tree
DetailsRendered(s) ==
    /\ mounted
    /\ SectionShown(WidgetProps(result.body), s)
    /\ expandedSections[s]

InitWidget ==
    /\ variant = 2
    /\ pc = "done"
    /\ prData \in PRBodies
    /\ reviews = <<>>
    /\ checksData \in ChecksBodies
    /\ comments = <<>>
    /\ filesData \in FileLists
    /\ statusLog = Classify(prData, reviews, checksData).log
    /\ result = Verdict(Output(prData, reviews, checksData, filesData))
    /\ resolved = {"pr", "reviews", "checks", "comments", "files"}
    /\ mounted = FALSE
    /\ expandedSections = Collapsed
    /\ toggles = NoToggles

\* first render: useState initialises the sections
Mount ==
    /\ ~mounted
    /\ pc = "done" /\ result.kind = "verdict" /\ variant = 2
    /\ mounted' = TRUE
    /\ expandedSections' = Collapsed
    /\ toggles' = NoToggles
    /\ UNCHANGED handlerVars

\* a click on the button of a section
Toggle(s) ==
    /\ mounted
    /\ SectionShown(WidgetProps(result.body), s)
    /\ toggles[s] < MaxToggles
    /\ expandedSections' = ToggleSection(expandedSections, s)
    /\ toggles' = [toggles EXCEPT ![s] = @ + 1]
    /\ UNCHANGED <<handlerVars, mounted>>

NextWidget ==
    \/ Mount
    \/ \E s \in Sections : Toggle(s)

SpecWidget == InitWidget /\ [][NextWidget]_vars

----------------------------------------------------------------------------
(* Vocabulary of the properties *)

\* the handler has returned a verdict (not an error)
Returned == pc = "done" /\ result.kind = "verdict"
Returned2 == Returned /\ variant = 2

\* the order ready > pending > not-ready
Rank(s) == IF s = "ready" THEN 2 ELSE IF s = "pending" THEN 1 ELSE 0

\* the signals of the snapshot the handler has fetched
NumReviewers ==
    IF prData.requested_reviewers.defined THEN Len(prData.requested_reviewers.value) ELSE 0
NumApprovals == Cardinality({i \in DOMAIN reviews : reviews[i].state = "APPROVED"})
NumRequired == IF NumReviewers > 1 THEN NumReviewers ELSE 1
RunList == IF checksData.check_runs.defined THEN checksData.check_runs.value ELSE <<>>
RunState(i) ==
    CASE RunList[i].conclusion = "success" -> "success"
      [] RunList[i].conclusion = "failure" -> "failure"
      [] RunList[i].conclusion = "cancelled" -> "error"
      [] OTHER -> "pending"
NumFailing == Cardinality({i \in DOMAIN RunList : RunState(i) \in {"failure", "error"}})
NumPending == Cardinality({i \in DOMAIN RunList : RunState(i) = "pending"})
ApprovalsMissing == NumApprovals < NumRequired
SomeCheckFailing == NumFailing > 0

\* the issues of the returned verdict, in both variants a plain sequence
Issues == IF variant = 2 THEN OrEmpty(result.body.issues) ELSE result.body.issues
NextActions == getNextActions(WidgetProps(result.body))

IsApprovalsIssue(m) == \E n \in 1..(MaxReviewers + 1) : m = "Needs " \o ToString(n) \o " more approval(s)"
IsChecksIssue(m) == \E n \in 1..(MaxChecks + 1) : m = ToString(n) \o " check(s) failing"

----------------------------------------------------------------------------
(* Properties *)

\* C1: whenever the fetched PR has mergeable false, the returned status is
\* not-ready, whatever approvals, checks and the draft flag are.
C1_ConflictsAlwaysNotReady ==
    (Returned /\ prData.mergeable = "false") => result.body.status = "not-ready"

\* conflicts together with full approvals and all checks passing
C1_Witness ==
    /\ Returned /\ prData.mergeable = "false" /\ ~prData.draft
    /\ ~ApprovalsMissing
    /\ Len(RunList) > 0 /\ \A i \in DOMAIN RunList : RunState(i) = "success"

\* C2: whenever the fetched PR is a draft, the returned status is not-ready,
\* whatever mergeability, approvals and checks are.
C2_DraftAlwaysNotReady ==
    (Returned /\ prData.draft) => result.body.status = "not-ready"

\* a draft with unknown mergeability, enough approvals and no checks
C2_Witness ==
    /\ Returned /\ prData.draft /\ prData.mergeable = "null"
    /\ ~ApprovalsMissing /\ Len(RunList) = 0

\* C3: whenever at least one check is failing (state failure or error), the
\* returned status is not-ready, never pending.
C3_FailingCheckBlocks ==
    (Returned /\ SomeCheckFailing) => result.body.status = "not-ready"

\* C4 as stated: with no conflicts and no draft, the status is pending
\* whenever approvals are missing or checks are failing, also when both are.
C4_PendingEvenWhenBoth ==
    (Returned2 /\ prData.mergeable # "false" /\ ~prData.draft
        /\ (ApprovalsMissing \/ SomeCheckFailing))
    => result.body.status = "pending"

\* C4 amended: the approvals rule and the checks rule each turn ready into
\* pending and anything else (pending included) into not-ready; so with no
\* conflicts and no draft the status is pending when exactly one of the two
\* rules fires and not-ready when both fire.
C4_RulesEscalate ==
    Returned2 =>
        /\ ApprovalsMissing =>
              statusLog[3] = (IF statusLog[2] = "ready" THEN "pending" ELSE "not-ready")
        /\ SomeCheckFailing =>
              statusLog[4] = (IF statusLog[3] = "ready" THEN "pending" ELSE "not-ready")
        /\ (prData.mergeable # "false" /\ ~prData.draft) =>
              /\ (ApprovalsMissing /\ SomeCheckFailing) => result.body.status = "not-ready"
              /\ (ApprovalsMissing # SomeCheckFailing) => result.body.status = "pending"

\* both rules fire on a PR with no conflicts and no draft
C4_Witness ==
    /\ Returned2 /\ prData.mergeable # "false" /\ ~prData.draft
    /\ ApprovalsMissing /\ SomeCheckFailing

\* scenario C: mergeable true, no draft, approvals 0 of 1, checks [failure, pending]
ScenarioC ==
    /\ Returned2
    /\ result.body.mergeable = "true" /\ ~result.body.draft
    /\ result.body.approvals = 0 /\ result.body.requiredApprovals = 1
    /\ Len(RunList) = 2 /\ RunState(1) = "failure" /\ RunState(2) = "pending"

\* C5 as stated: scenario C gives not-ready, the two issues, and exactly two
\* next actions (failing checks, then approvals).
C5_ScenarioTwoActions ==
    ScenarioC =>
        /\ result.body.status = "not-ready"
        /\ Issues = <<"Needs 1 more approval(s)", "1 check(s) failing">>
        /\ NextActions = <<"Fix 1 failing check", "Request 1 more approval">>

\* C5 amended: scenario C gives not-ready, the two issues, and three next
\* actions: failing checks, approvals, then the wait for the pending check.
C5_ScenarioThreeActions ==
    ScenarioC =>
        /\ result.body.status = "not-ready"
        /\ Issues = <<"Needs 1 more approval(s)", "1 check(s) failing">>
        /\ NextActions = <<"Fix 1 failing check", "Request 1 more approval",
                           "Wait for 1 pending check">>

C5_Witness == ScenarioC

C7_ReadyOnlyAllChecksPassed ==
    (Returned /\ result.body.status = "ready") =>
        /\ \A i \in DOMAIN RunList : RunState(i) = "success"
        /\ ~ApprovalsMissing
        /\ prData.mergeable # "false"

\* C8: the required-approval count is max(1, number of requested reviewers),
\* a missing or empty list included, hence at least 1; and with no requested
\* reviewers and no approvals the status is not ready.
C8_RequiredApprovalsFloor ==
    Returned =>
        /\ variant = 2 =>
              /\ result.body.requiredApprovals = NumRequired
              /\ result.body.requiredApprovals >= 1
        /\ variant = 1 =>
              (ApprovalsMissing <=>
                  \E i \in DOMAIN Issues :
                      Issues[i] = "Needs " \o ToString(NumRequired - NumApprovals)
                                    \o " more approval(s)")
        /\ (NumReviewers = 0 /\ NumApprovals = 0) => result.body.status # "ready"

\* no requested reviewers (list missing or empty) and no approvals
C8_Witness ==
    /\ Returned /\ NumReviewers = 0 /\ NumApprovals = 0
    /\ prData.mergeable = "true" /\ ~prData.draft /\ ~SomeCheckFailing

\* C9: the status after each rule is, on ready > pending > not-ready, less
\* than or equal to the status before that rule.
C9_MonotonicDowngrade ==
    Returned =>
        /\ Len(statusLog) = 5
        /\ statusLog[1] = "ready"
        /\ statusLog[5] = result.body.status
        /\ \A k \in 2..5 : Rank(statusLog[k]) <= Rank(statusLog[k - 1])

\* a run in which the status goes down twice
C9_Witness ==
    Returned /\ statusLog = <<"ready", "ready", "pending", "not-ready", "not-ready">>

\* C10 as stated: the draft issue precedes any approvals issue and any
\* checks issue.
C10_DraftIssueBeforeOthers ==
    Returned2 =>
        \A i, j \in DOMAIN Issues :
            (Issues[i] = DraftIssue /\ (IsApprovalsIssue(Issues[j]) \/ IsChecksIssue(Issues[j])))
            => i < j

\* position of an issue in the order conflicts, approvals, checks, draft
IssueOrder(m) ==
    IF m = ConflictIssue THEN 1
    ELSE IF IsApprovalsIssue(m) THEN 2
    ELSE IF IsChecksIssue(m) THEN 3
    ELSE IF m = DraftIssue THEN 4
    ELSE 0

\* C10 amended: the issues are in the order conflicts, approvals, checks,
\* draft, so the draft issue follows any approvals issue and checks issue.
C10_IssuesInCodeOrder ==
    Returned2 =>
        /\ \A i \in DOMAIN Issues : IssueOrder(Issues[i]) # 0
        /\ \A i, j \in DOMAIN Issues : i < j => IssueOrder(Issues[i]) < IssueOrder(Issues[j])

\* a draft with missing approvals and a failing check: three issues
C10_Witness ==
    /\ Returned2 /\ prData.draft /\ ApprovalsMissing /\ SomeCheckFailing
    /\ Len(Issues) >= 3

----------------------------------------------------------------------------
(* Properties of the next actions, the checks and the issue texts *)

Min(a, b) == IF a <= b THEN a ELSE b
Count(n, one, many) == ToString(n) \o (IF n = 1 THEN one ELSE many)

\* the applicable actions of the fetched snapshot in the priority order
\* conflicts, draft, failing checks, missing approvals, pending checks
ApplicableActions ==
    (IF prData.mergeable = "false"
        THEN <<"Resolve the existing merge conflicts before merging">> ELSE <<>>)
    \o (IF prData.draft THEN <<"Mark the PR as ready for review">> ELSE <<>>)
    \o (IF NumFailing > 0
        THEN <<"Fix " \o Count(NumFailing, " failing check", " failing checks")>>
        ELSE <<>>)
    \o (IF ApprovalsMissing
        THEN <<"Request " \o Count(NumRequired - NumApprovals, " more approval",
                                   " more approvals")>>
        ELSE <<>>)
    \o (IF NumPending > 0
        THEN <<"Wait for " \o Count(NumPending, " pending check", " pending checks")>>
        ELSE <<>>)

\* C11: nextActions is the first min(3, k) entries of the k applicable
\* actions in priority order, so it has at most 3 entries, later ones are
\* cut off, and the order of the surfaced ones is the priority order.
C11_FirstThreeByPriority ==
    Returned2 =>
        /\ Len(NextActions) = Min(3, Len(ApplicableActions))
        /\ NextActions = SubSeq(ApplicableActions, 1, Min(3, Len(ApplicableActions)))

\* all five actions apply, and three are surfaced
C11_Witness ==
    Returned2 /\ Len(ApplicableActions) = 5 /\ Len(NextActions) = 3

\* the checks the widget works on
WidgetChecks == WidgetProps(result.body).checks

\* C12: (variant 2) every check run appears in the output checks with the
\* state its conclusion maps to (success, failure, cancelled -> error, any
\* other or unset -> pending); none is dropped, so the widget's passing,
\* failing and pending counts sum to the number of check runs.
C12_EveryRunNormalized ==
    Returned2 =>
        /\ Len(WidgetChecks) = Len(RunList)
        /\ \A i \in DOMAIN RunList :
              /\ WidgetChecks[i].state = RunState(i)
              /\ WidgetChecks[i].state \in {"success", "failure", "pending", "error"}
        /\ Len(PassingChecks(WidgetChecks)) + Len(FailingChecks(WidgetChecks))
              + Len(PendingChecks(WidgetChecks)) = Len(RunList)

\* a cancelled run next to one that has not finished
C12_Witness ==
    /\ Returned2 /\ Len(RunList) = 2
    /\ RunList[1].conclusion = "cancelled" /\ RunList[2].status = "in_progress"

IsFixAction(m) ==
    \E n \in 1..(MaxChecks + 1) : m = "Fix " \o Count(n, " failing check", " failing checks")
IsWaitAction(m) ==
    \E n \in 1..(MaxChecks + 1) : m = "Wait for " \o Count(n, " pending check", " pending checks")

\* C13: with an empty check list there is no checks issue, the checks rule
\* leaves the status alone, the widget has no failing-check or pending-check
\* action, and the checks progress ratio is 0, not a division by zero.
C13_EmptyChecksContributeNothing ==
    (Returned /\ Len(RunList) = 0) =>
        /\ \A i \in DOMAIN Issues : ~IsChecksIssue(Issues[i])
        /\ statusLog[4] = statusLog[3]
        /\ variant = 2 =>
              /\ \A i \in DOMAIN NextActions :
                    ~IsFixAction(NextActions[i]) /\ ~IsWaitAction(NextActions[i])
              /\ ChecksProgress(WidgetProps(result.body)).den # 0
              /\ ChecksProgress(WidgetProps(result.body)).num = 0

\* no check runs at all, with other blockers present
C13_Witness ==
    Returned2 /\ Len(RunList) = 0 /\ ApprovalsMissing /\ ~result.body.checks.defined

\* C14: "Needs N more approval(s)" is an issue iff approvals are fewer than
\* required, with N the difference (at least 1); "N check(s) failing" is an
\* issue iff some check has state failure or error, with N the number of
\* those checks (pending or unfinished checks are not counted).
C14_IssueCountsExact ==
    Returned =>
        /\ ApprovalsMissing <=> \E i \in DOMAIN Issues : IsApprovalsIssue(Issues[i])
        /\ \A i \in DOMAIN Issues :
              IsApprovalsIssue(Issues[i]) =>
                  /\ NumRequired - NumApprovals >= 1
                  /\ Issues[i] = "Needs " \o ToString(NumRequired - NumApprovals)
                                   \o " more approval(s)"
        /\ SomeCheckFailing <=> \E i \in DOMAIN Issues : IsChecksIssue(Issues[i])
        /\ \A i \in DOMAIN Issues :
              IsChecksIssue(Issues[i]) =>
                  Issues[i] = ToString(NumFailing) \o " check(s) failing"

----------------------------------------------------------------------------
(* Properties of the fetches *)

\* C15: once the PR metadata has been fetched, a failed secondary fetch
\* (reviews, check runs, comments, files) never ends the call with an error
\* result: the handler still returns a verdict.
C15_SecondaryFailureStillVerdict ==
    (pc = "done" /\ prData.hasHead) => result.kind = "verdict"

SomeErrorText ==
    {"Error fetching PR data: fetch failed",
     "Error fetching PR data: Cannot read properties of undefined (reading 'sha')"}

\* C16: when the PR metadata fetch fails (the PR is not found, or the fetch
\* rejects), the handler returns one error result with isError set and an
\* error text, and no status is ever calculated from the missing PR data.
C16_NoVerdictWithoutPR ==
    /\ (pc = "done" /\ ~prData.hasHead) =>
           /\ result.kind = "error" /\ result.isError
           /\ result.text \in SomeErrorText
    /\ ~prData.hasHead => (statusLog = <<>> /\ result.kind # "verdict")

\* the PR was not found and reading head.sha threw
C16_Witness ==
    /\ pc = "done" /\ "pr" \in resolved /\ ~prData.hasHead
    /\ result.text = "Error fetching PR data: Cannot read properties of undefined (reading 'sha')"

\* the status and the issues as functions of the classification signals
\* (mergeable, draft, review decisions, requested reviewers, check runs)
StatusOfSignals ==
    IF prData.mergeable = "false" \/ prData.draft \/ (ApprovalsMissing /\ SomeCheckFailing)
    THEN "not-ready"
    ELSE IF ApprovalsMissing \/ SomeCheckFailing THEN "pending" ELSE "ready"
IssuesOfSignals ==
    (IF prData.mergeable = "false"
        THEN <<"Resolve the existing merge conflicts before merging">> ELSE <<>>)
    \o (IF ApprovalsMissing
        THEN <<"Needs " \o ToString(NumRequired - NumApprovals) \o " more approval(s)">>
        ELSE <<>>)
    \o (IF SomeCheckFailing THEN <<ToString(NumFailing) \o " check(s) failing">> ELSE <<>>)
    \o (IF prData.draft THEN <<"PR is still in draft">> ELSE <<>>)

\* C17: (variant 2) the returned status and issues are determined by the
\* classification signals alone: in every call, whatever the files, the
\* comments and the calls before it were, they are the values of one
\* function of mergeable, draft, reviews, requested reviewers and check runs.
C17_VerdictFromSignalsOnly ==
    Returned2 => (result.body.status = StatusOfSignals /\ Issues = IssuesOfSignals)

\* a verdict with issues, returned with files and comments present
C17_Witness ==
    /\ Returned2 /\ Len(filesData) > 0 /\ Len(comments) > 0
    /\ Len(Issues) > 0

----------------------------------------------------------------------------
(* Properties of the widget's sections *)

\* C18: no detail list is rendered when the widget mounts; after any
\* sequence of clicks the detail list of a section is rendered iff that
\* section was toggled an odd number of times, whatever was done to the
\* other sections.
C18_SectionsFollowOwnToggles ==
    \A s \in Sections :
        /\ ~mounted => ~DetailsRendered(s)
        /\ mounted =>
              /\ DetailsRendered(s) <=> (toggles[s] % 2 = 1)
              /\ expandedSections[s] <=> (toggles[s] % 2 = 1)

\* checks opened, files opened and closed again
C18_Witness ==
    /\ mounted
    /\ toggles["checks"] = 1 /\ toggles["files"] = 2
    /\ DetailsRendered("checks") /\ ~DetailsRendered("files")

----------------------------------------------------------------------------
(* Properties of the order of fetches and rules, and of the final status *)

\* the fetches a call issues: index.ts fetches no files
FetchesIssued ==
    IF variant = 2 THEN {"pr", "reviews", "checks", "comments", "files"}
    ELSE {"pr", "reviews", "checks", "comments"}

\* C19: the status rules run, and a verdict exists, only after every fetch
\* of the call (PR metadata, reviews, check runs, comments, files) has
\* resolved or failed soft; no verdict is there while a fetch is awaited.
C19_ClassifyAfterAllFetches ==
    (statusLog # <<>> \/ result.kind = "verdict") =>
        /\ resolved = FetchesIssued
        /\ pc = "done"

\* a verdict whose files fetch answered with nothing
C19_Witness ==
    /\ Returned2 /\ resolved = {"pr", "reviews", "checks", "comments", "files"}
    /\ Len(filesData) = 0 /\ Len(reviews) > 0

\* what the checks rule of the deployed variant takes for a failing check:
\* state failure or error in variant 2, completed without success in index.ts
FailingForRule ==
    IF variant = 2 THEN SomeCheckFailing
    ELSE \E i \in DOMAIN RunList :
             RunList[i].status = "completed" /\ RunList[i].conclusion # "success"

----------------------------------------------------------------------------
(* Properties relating status, issues, next actions and the two variants *)

\* how many of the four rule conditions hold in the fetched snapshot
NumRulesHolding ==
    (IF prData.mergeable = "false" THEN 1 ELSE 0)
    + (IF ApprovalsMissing THEN 1 ELSE 0)
    + (IF FailingForRule THEN 1 ELSE 0)
    + (IF prData.draft THEN 1 ELSE 0)

\* the rules after which the status differs from the status before
StatusChanges == {i \in 1..(Len(statusLog) - 1) : statusLog[i + 1] # statusLog[i]}

\* C21: in every verdict the status is ready iff the issues list is empty:
\* there is exactly one issue per rule whose condition holds, so no rule
\* changes the status without an issue and no issue comes without a rule.
C21_ReadyIffNoIssues ==
    Returned =>
        /\ result.body.status = "ready" <=> Issues = <<>>
        /\ Len(Issues) = NumRulesHolding
        /\ Cardinality(StatusChanges) <= Len(Issues)

\* scenario A: approvals 2 of 2, mergeable true, two checks both success
C21_Witness ==
    /\ Returned /\ prData.mergeable = "true" /\ ~prData.draft
    /\ NumApprovals = 2 /\ NumReviewers = 2
    /\ Len(RunList) = 2 /\ \A i \in DOMAIN RunList : RunList[i].conclusion = "success"
    /\ result.body.status = "ready" /\ Issues = <<>>

\* C22: (variant 2 output fed to the widget) nextActions is empty only if
\* the status is ready; when the status is ready every next action is the
\* "Wait for N pending check(s)" action; a pending or not-ready status has
\* at least one next action.
C22_StatusAgreesWithNextActions ==
    Returned2 =>
        /\ NextActions = <<>> => result.body.status = "ready"
        /\ result.body.status = "ready" =>
               \A i \in DOMAIN NextActions : IsWaitAction(NextActions[i])
        /\ result.body.status \in {"pending", "not-ready"} => Len(NextActions) >= 1

\* a ready PR with a check still running: the one next action is the wait
C22_Witness ==
    /\ Returned2 /\ result.body.status = "ready"
    /\ NumPending = 1
    /\ NextActions = <<"Wait for 1 pending check">>

\* every completed run of the snapshot concluded success, failure or cancelled
CompletedRunsConcluded ==
    \A i \in DOMAIN RunList :
        RunList[i].status = "completed" =>
            RunList[i].conclusion \in {"success", "failure", "cancelled"}

\* the status calculation of the variant that did not handle this call
OtherVariant ==
    IF variant = 1 THEN Classify(prData, reviews, checksData)
    ELSE Classify1(prData, reviews, checksData)

\* C23: index.ts and the second variant require the same number of
\* approvals for every requested-reviewer list, and for every snapshot whose
\* completed runs concluded success, failure or cancelled the verdict of one
\* variant has the status and the issues the other variant calculates.
C23_VariantsAgree ==
    /\ Max(1, RequestedReviewers(prData)) = RequiredApprovals(prData)
    /\ (Returned /\ CompletedRunsConcluded) =>
           /\ result.body.status = OtherVariant.status
           /\ Issues = OtherVariant.issues

\* index.ts, no reviewer list, no approval, one run cancelled and one running
C23_Witness ==
    /\ Returned /\ variant = 1 /\ CompletedRunsConcluded
    /\ ~prData.requested_reviewers.defined /\ NumApprovals = 0
    /\ Len(RunList) = 2
    /\ RunList[1].conclusion = "cancelled" /\ RunList[2].status = "in_progress"
    /\ result.body.status = "not-ready" /\ Len(Issues) = 2

====
